---- MODULE Spec2Model ----
(***************************************************************************)
(* A model of deepracer/logs/log_utils.py: the log loader                  *)
(* (SimulationLogsIO.load_single_file, load_data), the tabular converter   *)
(* (convert_to_pandas), the aggregator (AnalysisUtils.simulation_agg) and  *)
(* the waypoint bracketing of NewRewardUtils.df_to_params.                 *)
(*                                                                         *)
(* Text is a sequence of one-character strings.  The literal text          *)
(* SIM_TRACE_LOG is one symbol: it has no proper border (no prefix of it   *)
(* is also a suffix), so two occurrences never overlap and a search for it *)
(* in a line is a search for the symbol.                                   *)
(***************************************************************************)
EXTENDS Integers, Sequences, FiniteSets, TLC

VARIABLES
    content,    \* load_single_file: the text of the file fname
    arg,        \* load_single_file: the caller's data argument, before the call
    out,        \* load_single_file: the outcome of the call
    fs,         \* load_data: the files fname (0) and fname.i (i >= 1)
    loaded,     \* load_data: the outcome of the call
    made,       \* convert_to_pandas: what the simulator logged, as values
    conv_data,  \* convert_to_pandas: the argument data, a list of records as text
    epi,        \* convert_to_pandas: the argument episodes_per_iteration
    table,      \* convert_to_pandas: the outcome of the call
    panda,      \* simulation_agg: the caller's table
    calls,      \* simulation_agg: the calls made on the table, each with its outcome
    waypoints,  \* df_to_params: the argument waypoints, a list of points
    df_row,     \* df_to_params: the argument df_row (x, y, closest_waypoint)
    params,     \* df_to_params: the outcome of the call
    reward_panda,   \* new_reward: the caller's table
    reward_module,  \* new_reward: the module reward_module names
    scored,         \* new_reward: the outcome of the call
    df,         \* plot_track: the argument df, rows of (x, y, reward)
    plot_args,  \* plot_track: the arguments track_size, x_shift, y_shift
    track       \* plot_track: the outcome of the call

fileVars == <<content, arg, out>>
loadVars == <<fs, loaded>>
convVars == <<made, conv_data, epi, table>>
aggVars == <<panda, calls>>
paramVars == <<waypoints, df_row, params>>
rewardVars == <<reward_panda, reward_module, scored>>
trackVars == <<df, plot_args, track>>
vars == <<content, arg, out, fs, loaded, made, conv_data, epi, table, panda, calls,
          waypoints, df_row, params, reward_panda, reward_module, scored,
          df, plot_args, track>>

----------------------------------------------------------------------------
(* Bounds *)

MaxFileLen == 5     \* characters in the file given to load_single_file
MaxRoll == 2        \* continuation files fname.1 .. fname.MaxRoll
MaxLines == 1       \* lines in each file given to load_data
MaxRecords == 2     \* records after the two placeholders given to convert_to_pandas
MaxEpi == 2         \* episodes_per_iteration is 1..MaxEpi or the default
MaxRows == 2        \* rows of the table given to simulation_agg
MaxCalls == 2       \* successive calls of simulation_agg on the table
MaxX == 3           \* waypoints and positions have x in 0..MaxX
MaxY == 1           \* waypoints and positions have y in 0..MaxY
MaxScored == 2      \* rows of the table given to new_reward
MaxPlotted == 1     \* rows of the table given to plot_track

----------------------------------------------------------------------------
(* Text *)

Marker == "SIM_TRACE_LOG"
TAB == "\t"
NL == "\n"
Alphabet == {Marker, ":", TAB, NL, ",", "a"}

SeqsUpTo(S, n) == UNION {[1..k -> S] : k \in 0..n}

\* str.__contains__ for a one-symbol needle
Contains(s, c) == \E i \in 1..Len(s) : s[i] = c

RECURSIVE SplitAcc(_, _, _, _, _)
SplitAcc(s, sep, i, cur, acc) ==
    IF i > Len(s) THEN Append(acc, cur)
    ELSE IF /\ i + Len(sep) - 1 <= Len(s)
            /\ SubSeq(s, i, i + Len(sep) - 1) = sep
         THEN SplitAcc(s, sep, i + Len(sep), <<>>, Append(acc, cur))
         ELSE SplitAcc(s, sep, i + 1, Append(cur, s[i]), acc)

\* str.split(sep): the pieces between the non-overlapping occurrences of sep,
\* found left to right
Split(s, sep) == SplitAcc(s, sep, 1, <<>>, <<>>)

RECURSIVE Join(_, _)
\* sep.join(parts)
Join(parts, sep) ==
    IF Len(parts) = 0 THEN <<>>
    ELSE IF Len(parts) = 1 THEN parts[1]
    ELSE parts[1] \o sep \o Join(Tail(parts), sep)

RECURSIVE ReadLinesAcc(_, _, _, _)
ReadLinesAcc(s, i, cur, acc) ==
    IF i > Len(s) THEN (IF cur = <<>> THEN acc ELSE Append(acc, cur))
    ELSE IF s[i] = NL THEN ReadLinesAcc(s, i + 1, <<>>, Append(acc, Append(cur, NL)))
    ELSE ReadLinesAcc(s, i + 1, Append(cur, s[i]), acc)

\* f.readlines(): the lines of the text, each with its line end
ReadLines(s) == ReadLinesAcc(s, 1, <<>>, <<>>)

----------------------------------------------------------------------------
(* SimulationLogsIO.load_single_file *)

None == [is_none |-> TRUE, list |-> <<>>]
List(l) == [is_none |-> FALSE, list |-> l]

\* the guard of line 53
IsTraceLine(line) == Contains(line, Marker)

\* line 54: split("SIM_TRACE_LOG:"); [1] is an IndexError when there is one piece
AfterMarker(line) == Split(line, <<Marker, ":">>)

\* lines 54-55: the record a trace line gives
TraceRecord(line) ==
    Join(Split(Split(AfterMarker(line)[2], <<TAB>>)[1], <<",">>), <<",">>)

RECURSIVE ScanLines(_, _, _)
\* lines 52-55: the loop over the lines; it stops at the first line that raises
ScanLines(lines, i, recs) ==
    IF i > Len(lines) THEN [status |-> "ok", recs |-> recs]
    ELSE IF ~IsTraceLine(lines[i]) THEN ScanLines(lines, i + 1, recs)
    ELSE IF Len(AfterMarker(lines[i])) < 2
         THEN [status |-> "IndexError", recs |-> recs]
         ELSE ScanLines(lines, i + 1, Append(recs, TraceRecord(lines[i])))

\* line 48: "if not data" is true of None and of the empty list
RebindsData(data) == data.is_none \/ data.list = <<>>

\* The outcome of load_single_file(fname, data) on a file that exists:
\*   status  "ok" or the exception raised
\*   ret     the list returned (when ok)
\*   same    whether the list returned is the caller's list object
\*   caller  the caller's list after the call (when data is a list)
load_single_file(text, data) ==
    LET fresh == RebindsData(data)
        start == IF fresh THEN <<>> ELSE data.list
        scan == ScanLines(ReadLines(text), 1, <<>>)
        final == start \o scan.recs
    IN [status |-> scan.status,
        ret |-> IF scan.status = "ok" THEN final ELSE <<>>,
        same |-> (~fresh) /\ scan.status = "ok",
        caller |-> IF fresh THEN data.list ELSE final]

NoCall == [status |-> "none", ret |-> <<>>, same |-> FALSE, caller |-> <<>>]

DataArgs == {None, List(<<>>), List(<< <<"a">> >>)}

FileIdle == content = <<>> /\ arg = None /\ out = NoCall
NotLoaded == [status |-> "none", ret |-> None, opened |-> <<>>]

LoadIdle == fs = <<>> /\ loaded = NotLoaded

NoFrame == [has_new_reward |-> FALSE, rows |-> <<>>]

NoTable == [status |-> "none", header |-> <<>>, rows |-> <<>>]
NothingMade == [rows |-> <<>>, prefix |-> <<>>, bad |-> [k |-> 0, j |-> 0, text |-> <<>>]]

ConvIdle == made = NothingMade /\ conv_data = <<>> /\ epi = 0 /\ table = NoTable

AggIdle == panda = NoFrame /\ calls = <<>>

NoParams ==
    [status |-> "none", before |-> 0, after |-> 0, closest_waypoints |-> <<>>,
     closest_point |-> [xn |-> 0, yn |-> 0, den |-> 0]]
NoRow == [x |-> 0, y |-> 0, closest_waypoint |-> 0]

ParamIdle == waypoints = <<>> /\ df_row = NoRow /\ params = NoParams

NoModule == [importable |-> FALSE, returns |-> <<>>]
NotScored == [status |-> "none", invoked |-> <<>>, before |-> NoFrame]

RewardIdle == reward_panda = NoFrame /\ reward_module = NoModule /\ scored = NotScored

NoPlotArgs == [track_size |-> <<0, 0>>, x_shift |-> 0, y_shift |-> 0]
NoTrack == [status |-> "none", track |-> <<>>, written |-> <<>>]

TrackIdle == df = <<>> /\ plot_args = NoPlotArgs /\ track = NoTrack

FileInit ==
    /\ content \in SeqsUpTo(Alphabet, MaxFileLen)
    /\ arg = None
    /\ out = NoCall
    /\ LoadIdle
    /\ ConvIdle
    /\ AggIdle
    /\ ParamIdle
    /\ RewardIdle
    /\ TrackIdle

\* A caller's call of load_single_file(fname, data) on the file
LoadSingleFile ==
    /\ out.status = "none"
    /\ \E data \in DataArgs :
         /\ arg' = data
         /\ out' = load_single_file(content, data)
    /\ UNCHANGED <<content, loadVars, convVars, aggVars, paramVars, rewardVars, trackVars>>

FileNext == LoadSingleFile

SpecFile == FileInit /\ [][FileNext]_vars

----------------------------------------------------------------------------
(* SimulationLogsIO.load_data *)

\* The lines the simulator writes to the files given to load_data: two trace
\* lines with different records and a line that is no trace line
LogLines ==
    { <<Marker, ":", "1", ",", "a", TAB, "x", NL>>,
      <<Marker, ":", "2", ",", "b", NL>>,
      <<"n", NL>> }

RECURSIVE Concat(_)
Concat(ss) == IF ss = <<>> THEN <<>> ELSE Head(ss) \o Concat(Tail(ss))

LogTexts == {Concat(ls) : ls \in SeqsUpTo(LogLines, MaxLines)}

Missing == [exists |-> FALSE, text |-> <<>>]
File(t) == [exists |-> TRUE, text |-> t]

\* os.path.isfile('%s.%s' % (fname, i))
isfile(files, i) == i \in DOMAIN files /\ files[i].exists

RECURSIVE RolloverEndFrom(_, _)
RolloverEndFrom(files, i) ==
    IF isfile(files, i) THEN RolloverEndFrom(files, i + 1) ELSE i

\* A scan that skips the gaps: it ends after the last continuation file there is
RolloverEndAtLast(files) ==
    LET there == {i \in DOMAIN files : i >= 1 /\ files[i].exists}
    IN IF there = {} THEN 1 ELSE 1 + CHOOSE i \in there : \A j \in there : j <= i

\* lines 76-80: the value of i when the while loop ends
RolloverEnd(files) == RolloverEndFrom(files, 1)

RECURSIVE ReadRollover(_, _, _, _, _)
\* lines 78-80: the calls load_single_file('%s.%s' % (fname, i), data); the
\* value each returns is dropped, so only the caller's list carries on
ReadRollover(files, i, end, data, opened) ==
    IF i >= end THEN [status |-> "ok", data |-> data, opened |-> opened]
    ELSE LET r == load_single_file(files[i].text, List(data))
         IN IF r.status # "ok"
            THEN [status |-> r.status, data |-> r.caller, opened |-> Append(opened, i)]
            ELSE ReadRollover(files, i + 1, end, r.caller, Append(opened, i))

\* The outcome of load_data(fname):
\*   status  "ok" or the exception raised
\*   ret     the list returned, None when the call raised
\*   opened  the files opened and read, in order (0 is fname, i is fname.i)
load_data(files) ==
    LET roll == ReadRollover(files, 1, RolloverEnd(files), <<>>, <<>>)
    IN IF roll.status # "ok"
       THEN [status |-> roll.status, ret |-> None, opened |-> roll.opened]
       ELSE IF ~files[0].exists
       THEN [status |-> "IOError", ret |-> None, opened |-> roll.opened]
       ELSE LET r == load_single_file(files[0].text, List(roll.data))
            IN IF r.status # "ok"
               THEN [status |-> r.status, ret |-> None,
                     opened |-> Append(roll.opened, 0)]
               ELSE [status |-> "ok", ret |-> List(r.caller),
                     opened |-> Append(roll.opened, 0)]

LoadInit ==
    /\ fs \in [0..MaxRoll -> {Missing} \cup {File(t) : t \in LogTexts}]
    /\ loaded = NotLoaded
    /\ FileIdle
    /\ ConvIdle
    /\ AggIdle
    /\ ParamIdle
    /\ RewardIdle
    /\ TrackIdle

LoadData ==
    /\ loaded.status = "none"
    /\ loaded' = load_data(fs)
    /\ UNCHANGED <<fs, fileVars, convVars, aggVars, paramVars, rewardVars, trackVars>>

LoadNext == LoadData

SpecLoad == LoadInit /\ [][LoadNext]_vars

----------------------------------------------------------------------------
(* Numbers as text.  A floating-point or decimal value is held as an       *)
(* integer count of units of 10^-FracDigits, which is exact for every text *)
(* of at most FracDigits fraction digits.                                  *)

FracDigits == 4     \* '%.4f' in the line format
ShortDigits == 2    \* '%.2f' in the line format

Digits == <<"0", "1", "2", "3", "4", "5", "6", "7", "8", "9">>
IsDigit(c) == \E d \in 1..Len(Digits) : Digits[d] = c
DigitVal(c) == (CHOOSE d \in 1..Len(Digits) : Digits[d] = c) - 1

RECURSIVE Pow10(_)
Pow10(n) == IF n = 0 THEN 1 ELSE 10 * Pow10(n - 1)

Unit == Pow10(FracDigits)

RECURSIVE FmtNat(_)
FmtNat(n) == IF n < 10 THEN <<Digits[n + 1]>>
             ELSE FmtNat(n \div 10) \o <<Digits[(n % 10) + 1]>>

RECURSIVE Pad(_, _)
\* the digits of n, filled with zeros on the left to width d
Pad(n, d) == IF d = 0 THEN <<>> ELSE Pad(n \div 10, d - 1) \o <<Digits[(n % 10) + 1]>>

\* '%d' % n
FmtInt(n) == IF n < 0 THEN <<"-">> \o FmtNat(-n) ELSE FmtNat(n)

\* '%.df' % v, for a value v (in units) that has at most d fraction digits
FmtFixed(v, d) ==
    LET a == (IF v < 0 THEN -v ELSE v) \div Pow10(FracDigits - d)
    IN (IF v < 0 THEN <<"-">> ELSE <<>>)
       \o FmtNat(a \div Pow10(d)) \o <<".">> \o Pad(a % Pow10(d), d)

\* '%s' % b for a bool
FmtBool(b) == IF b THEN <<"T", "r", "u", "e">> ELSE <<"F", "a", "l", "s", "e">>

\* '%s' % time.time(): the shortest text of a float, for a time with one
\* fraction digit
FmtTime(t) == FmtFixed(t, 1)

IsSpace(c) == c \in {" ", TAB, NL}

RECURSIVE RStrip(_)
\* str.rstrip()
RStrip(s) == IF s # <<>> /\ IsSpace(s[Len(s)]) THEN RStrip(SubSeq(s, 1, Len(s) - 1)) ELSE s

RECURSIVE LStrip(_)
LStrip(s) == IF s # <<>> /\ IsSpace(Head(s)) THEN LStrip(Tail(s)) ELSE s

Strip(s) == LStrip(RStrip(s))

AllDigits(s) == \A i \in 1..Len(s) : IsDigit(s[i])

RECURSIVE DigitsVal(_)
DigitsVal(s) == IF s = <<>> THEN 0 ELSE 10 * DigitsVal(SubSeq(s, 1, Len(s) - 1)) + DigitVal(s[Len(s)])

Signed(s) == s # <<>> /\ Head(s) \in {"-", "+"}
Unsigned(s) == IF Signed(s) THEN Tail(s) ELSE s
SignOf(s) == IF s # <<>> /\ Head(s) = "-" THEN -1 ELSE 1

Failed == [ok |-> FALSE, val |-> 0]
Parsed(v) == [ok |-> TRUE, val |-> v]

\* int(s): blanks around it, a sign, then one or more digits
PyInt(s) ==
    LET body == Unsigned(Strip(s))
    IN IF body # <<>> /\ AllDigits(body)
       THEN Parsed(SignOf(Strip(s)) * DigitsVal(body))
       ELSE Failed

\* float(s), for texts of blanks, a sign, digits and a point: digits with at
\* most one point and at least one digit.  The value is in units; texts with
\* an exponent, inf, nan or more than FracDigits fraction digits are not
\* among the texts of the model.
PyFloat(s) ==
    LET body == Unsigned(Strip(s))
        ps == Split(body, <<".">>)
        whole == ps[1]
        frac == IF Len(ps) = 2 THEN ps[2] ELSE <<>>
    IN IF /\ Len(ps) <= 2
          /\ AllDigits(whole) /\ AllDigits(frac)
          /\ Len(whole) + Len(frac) > 0
          /\ Len(frac) <= FracDigits
       THEN Parsed(SignOf(Strip(s)) *
                   (DigitsVal(whole) * Unit + DigitsVal(frac) * Pow10(FracDigits - Len(frac))))
       ELSE Failed

\* Decimal(s): the same texts as float, and the value is exact
PyDecimal(s) == PyFloat(s)

\* sub in s, for texts
ContainsText(s, sub) ==
    \E i \in 1..(Len(s) - Len(sub) + 1) : SubSeq(s, i, i + Len(sub) - 1) = sub

----------------------------------------------------------------------------
(* SimulationLogsIO.convert_to_pandas *)

DefaultEpisodesPerIteration == 20

Header ==
    <<"iteration", "episode", "steps", "x", "y", "yaw", "steer", "throttle", "action",
      "reward", "done", "on_track", "progress", "closest_waypoint", "track_len",
      "timestamp">>

\* int(episode / episodes_per_iteration): the quotient cut toward zero
IntOfQuotient(e, p) == IF e >= 0 THEN e \div p ELSE -((-e) \div p)

\* line 128 with the quotient rounded up
IterationRoundedUp(e, p) == -((-e) \div p) + 1

\* line 128
IterationOf(e, p) == IntOfQuotient(e, p) + 1

\* lines 114-115: 100 * float(...)
Scaled(v) == 100 * v

\* the cast lines 112-126 apply to parts[j - 1]
CastOf(j) ==
    CASE j \in {1, 2, 13} -> "int"
      [] j \in {10, 11} -> "none"
      [] j = 15 -> "decimal"
      [] OTHER -> "float"

Cast(kind, s) ==
    CASE kind = "int" -> PyInt(s)
      [] kind = "float" -> PyFloat(s)
      [] kind = "decimal" -> PyDecimal(s)
      [] OTHER -> Parsed(0)

\* lines 111-131 for one record: the row, or the exception of the first
\* statement that raises (IndexError where parts is too short to index,
\* ValueError where a cast fails)
ParseRecord(d, p) ==
    LET parts == Split(RStrip(d), <<",">>)
        bad == {j \in 1..Len(Header) - 1 : j > Len(parts) \/ ~Cast(CastOf(j), parts[j]).ok}
        first == CHOOSE j \in bad : \A i \in bad : j <= i
        v(j) == Cast(CastOf(j), parts[j]).val
    IN IF bad # {}
       THEN [status |-> IF first > Len(parts) THEN "IndexError"
                        ELSE IF CastOf(first) = "decimal" THEN "InvalidOperation"
                        ELSE "ValueError",
             row |-> <<>>]
       ELSE [status |-> "ok",
             row |-> [iteration |-> IterationOf(v(1), p),
                      episode |-> v(1),
                      steps |-> v(2),
                      x |-> Scaled(v(3)),
                      y |-> Scaled(v(4)),
                      yaw |-> v(5),
                      steer |-> v(6),
                      throttle |-> v(7),
                      action |-> v(8),
                      reward |-> v(9),
                      done |-> IF ContainsText(parts[10], FmtBool(FALSE)) THEN 0 ELSE 1,
                      on_track |-> parts[11],
                      progress |-> v(12),
                      closest_waypoint |-> v(13),
                      track_len |-> v(14),
                      timestamp |-> v(15)]]

RECURSIVE ConvertRowsSkipping(_, _, _, _)
\* a loop that drops a record it cannot parse and goes on
ConvertRowsSkipping(ds, i, p, rows) ==
    IF i > Len(ds) THEN [status |-> "ok", header |-> Header, rows |-> rows]
    ELSE LET r == ParseRecord(ds[i], p)
         IN ConvertRowsSkipping(ds, i + 1, p,
                                IF r.status = "ok" THEN Append(rows, r.row) ELSE rows)

RECURSIVE ConvertRows(_, _, _, _)
\* lines 110-131: the loop; an exception leaves it, and the call, at once
ConvertRows(ds, i, p, rows) ==
    IF i > Len(ds) THEN [status |-> "ok", header |-> Header, rows |-> rows]
    ELSE LET r == ParseRecord(ds[i], p)
         IN IF r.status # "ok"
            THEN [status |-> r.status, header |-> <<>>, rows |-> <<>>]
            ELSE ConvertRows(ds, i + 1, p, Append(rows, r.row))

\* data[1:]
DropFirst(ds) == SubSeq(ds, 2, Len(ds))

\* line 110: data[2:]
DropFirstTwo(ds) == SubSeq(ds, 3, Len(ds))

\* The outcome of convert_to_pandas(data, episodes_per_iteration):
\*   status  "ok" or the exception raised
\*   header  the columns of the table (when ok)
\*   rows    the rows of the table, in order (when ok)
convert_to_pandas(ds, p) == ConvertRows(DropFirstTwo(ds), 1, p, <<>>)

\* What the simulator logs at three successive steps, as values (reals in
\* units); the trace goes round them
TraceSteps ==
    << [episode |-> 19, steps |-> 1, x |-> 5000, y |-> -12500, yaw |-> 0, steer |-> -3000,
        throttle |-> 10000, action |-> 3, reward |-> 1000, done |-> FALSE,
        on_track |-> TRUE, progress |-> 12500, closest_waypoint |-> 7,
        track_len |-> 176200, timestamp |-> 1000000],
       [episode |-> 20, steps |-> 12, x |-> 0, y |-> 31234, yaw |-> -15708, steer |-> 5200,
        throttle |-> 5000, action |-> 0, reward |-> 0, done |-> TRUE,
        on_track |-> FALSE, progress |-> 1000000, closest_waypoint |-> 0,
        track_len |-> 176200, timestamp |-> 1035000],
       [episode |-> 21, steps |-> 2, x |-> -20001, y |-> 7, yaw |-> 31416, steer |-> 0,
        throttle |-> 33300, action |-> 11, reward |-> 123456, done |-> FALSE,
        on_track |-> FALSE, progress |-> 805000, closest_waypoint |-> 118,
        track_len |-> 176200, timestamp |-> 1036000] >>

TraceAt(i) == TraceSteps[((i - 1) % Len(TraceSteps)) + 1]

\* lines 92-103: the fields of the simulator's line
FieldsOf(r) ==
    <<FmtInt(r.episode), FmtInt(r.steps), FmtFixed(r.x, FracDigits),
      FmtFixed(r.y, FracDigits), FmtFixed(r.yaw, FracDigits),
      FmtFixed(r.steer, ShortDigits), FmtFixed(r.throttle, ShortDigits),
      FmtInt(r.action), FmtFixed(r.reward, FracDigits), FmtBool(r.done),
      FmtBool(r.on_track), FmtFixed(r.progress, FracDigits),
      FmtInt(r.closest_waypoint), FmtFixed(r.track_len, ShortDigits),
      FmtTime(r.timestamp)>>

\* Texts a field may hold instead: texts int() takes, texts only float() and
\* Decimal() take, and texts no number cast takes
IntTexts == { <<"0">>, <<"1">>, <<"-", "1">>, <<"-", "3">>, <<"2", "1">>, <<" ", "2">>, <<"4", NL>> }
PointTexts == { <<"0", ".", "5">>, <<"1", ".">>, <<".", "5">>, <<"-", "2", ".", "5">> }
OtherTexts ==
    { <<>>, <<"x">>, <<"-">>, <<".">>, <<"1", ".", "2", ".", "3">>,
      FmtBool(TRUE), FmtBool(FALSE), <<"x">> \o FmtBool(FALSE) }
FieldTexts == IntTexts \cup PointTexts \cup OtherTexts

Unspoilt == [k |-> 0, j |-> 0, text |-> <<>>]

\* the records of the list after its first two, as text
RecordsMade(m) ==
    [i \in 1..Len(m.rows) |->
        Join([j \in 1..Len(Header) - 1 |->
                 IF m.bad.k = i /\ m.bad.j = j THEN m.bad.text ELSE FieldsOf(m.rows[i])[j]],
             <<",">>)]

\* the two records the list starts with: what the trainer logs before the
\* first step, or anything else
Prefixes ==
    LET r == TraceAt(1)
    IN { <<Join(FieldsOf(r), <<",">>), Join(FieldsOf(r), <<",">>)>>, << <<"x">>, <<>> >> }

Makes ==
    { [rows |-> rs, prefix |-> pre, bad |-> b] :
        rs \in {[i \in 1..n |-> TraceAt(i)] : n \in 0..MaxRecords}, pre \in Prefixes,
        b \in {Unspoilt} \cup [k : 1..MaxRecords, j : 1..Len(Header) - 1, text : FieldTexts] }

ConvInit ==
    /\ made \in {m \in Makes : m.bad.k <= Len(m.rows)}
    /\ conv_data = made.prefix \o RecordsMade(made)
    /\ epi = 0
    /\ table = NoTable
    /\ FileIdle
    /\ LoadIdle
    /\ AggIdle
    /\ ParamIdle
    /\ RewardIdle
    /\ TrackIdle

EpisodesPerIteration == (1..MaxEpi) \cup {DefaultEpisodesPerIteration}

\* A caller's call of convert_to_pandas(data, episodes_per_iteration)
ConvertToPandas ==
    /\ table.status = "none"
    /\ \E p \in EpisodesPerIteration :
         /\ epi' = p
         /\ table' = convert_to_pandas(conv_data, p)
    /\ UNCHANGED <<made, conv_data, fileVars, loadVars, aggVars, paramVars, rewardVars, trackVars>>

ConvNext == ConvertToPandas

SpecConvert == ConvInit /\ [][ConvNext]_vars

----------------------------------------------------------------------------
(* AnalysisUtils.simulation_agg, with firstgroup = 'iteration'.  A table is *)
(* its rows in order and whether it has the column new_reward; timestamps  *)
(* and times are in tenths of a second.                                    *)

RECURSIVE np_sum(_)
np_sum(vals) == IF vals = <<>> THEN 0 ELSE Head(vals) + np_sum(Tail(vals))

RECURSIVE np_max(_)
np_max(vals) ==
    IF Len(vals) = 1 THEN vals[1]
    ELSE LET m == np_max(Tail(vals)) IN IF Head(vals) > m THEN Head(vals) ELSE m

RECURSIVE np_min(_)
np_min(vals) ==
    IF Len(vals) = 1 THEN vals[1]
    ELSE LET m == np_min(Tail(vals)) IN IF Head(vals) < m THEN Head(vals) ELSE m

\* the last value minus the first
last_minus_first(vals) == vals[Len(vals)] - vals[1]

\* np.ptp: the range of the values, maximum - minimum
np_ptp(vals) == np_max(vals) - np_min(vals)

\* a quotient of two numbers as floating point gives it: a number, or inf or
\* nan where the divisor is 0; no exception is raised
Quotient(n, d) ==
    [kind |-> IF d # 0 THEN "number" ELSE IF n = 0 THEN "nan"
              ELSE IF n > 0 THEN "inf" ELSE "-inf",
     num |-> n, den |-> d]

\* np.mean
np_mean(vals) == Quotient(np_sum(vals), Len(vals))

Column(rows, c) == [i \in 1..Len(rows) |-> rows[i][c]]

KeyOf(r) == <<r.iteration, r.episode>>
KeyBefore(a, b) == a[1] < b[1] \/ (a[1] = b[1] /\ a[2] < b[2])

RECURSIVE SortKeys(_)
SortKeys(S) ==
    IF S = {} THEN <<>>
    ELSE LET k == CHOOSE a \in S : \A b \in S \ {a} : KeyBefore(a, b)
         IN <<k>> \o SortKeys(S \ {k})

\* the groups that made some progress only
GroupKeysWithProgress(rows) ==
    SortKeys({KeyOf(rows[i]) : i \in {n \in 1..Len(rows) : rows[n].progress # 0}})

\* line 173: panda.groupby([firstgroup, 'episode']): the group keys in
\* ascending order, and the rows of a group in the table's order
GroupKeys(rows) == SortKeys({KeyOf(rows[i]) : i \in 1..Len(rows)})
GroupOf(rows, k) == SelectSeq(rows, LAMBDA r : KeyOf(r) = k)

Labels == <<"1st", "2nd", "3rd", "4th", "5th">>

\* lines 206-207: pd.cut(result['episode'], 5, labels=...): five bins of equal
\* width over [mn, mx], each closed on the right, the first taking mn; where
\* mn = mx the range is widened on both sides and the value is in the middle bin
Quintile(e, mn, mx) ==
    IF mn = mx THEN Labels[3]
    ELSE IF e = mn THEN Labels[1]
    ELSE Labels[((Len(Labels) * (e - mn) + (mx - mn) - 1) \div (mx - mn))]

\* a groupby object that keeps a copy of the table as it was at line 173
GroupedSnapshot(before, after) == before

\* lines 173, 193: grouped refers to the table object itself, so it has the
\* column line 192 adds
GroupedFrame(before, after) == after

\* the column added whether or not the call is in evaluation mode
FillNewRewardAlways(p, is_eval) ==
    IF p.has_new_reward THEN p
    ELSE [has_new_reward |-> TRUE,
          rows |-> [i \in 1..Len(p.rows) |->
                       [p.rows[i] EXCEPT !.new_reward = p.rows[i].reward]]]

\* lines 190-192: the table after the call
FillNewReward(p, is_eval) ==
    IF is_eval \/ p.has_new_reward THEN p
    ELSE [has_new_reward |-> TRUE,
          rows |-> [i \in 1..Len(p.rows) |->
                       [p.rows[i] EXCEPT !.new_reward = p.rows[i].reward]]]

AggColumns(add_timestamp, is_eval) ==
    <<"iteration", "episode", "steps", "start_at", "progress", "time">>
    \o (IF is_eval THEN <<>> ELSE <<"new_reward">>)
    \o <<"throttle">>
    \o (IF is_eval THEN <<>> ELSE <<"reward">>)
    \o <<"time_if_complete">>
    \o (IF is_eval THEN <<>> ELSE <<"reward_if_complete", "quintile">>)
    \o (IF add_timestamp THEN <<"timestamp">> ELSE <<>>)

\* lines 175-212 for one group: the row of the result
AggRow(k, g, gnew, add_timestamp, is_eval, mn, mx) ==
    LET progress == np_max(Column(g, "progress"))
        time == np_ptp(Column(g, "timestamp"))
        reward == np_sum(Column(g, "reward"))
        base == [iteration |-> k[1],
                 episode |-> k[2],
                 steps |-> np_max(Column(g, "steps")),
                 start_at |-> g[1].closest_waypoint,
                 progress |-> progress,
                 time |-> time,
                 throttle |-> np_mean(Column(g, "throttle")),
                 time_if_complete |-> Quotient(time * 100, progress)]
        train == [new_reward |-> np_sum(Column(gnew, "new_reward")),
                  reward |-> reward,
                  reward_if_complete |-> Quotient(reward * 100, progress),
                  quintile |-> Quintile(k[2], mn, mx)]
        stamp == [timestamp |-> np_max(Column(g, "timestamp"))]
    IN base @@ (IF is_eval THEN <<>> ELSE train) @@ (IF add_timestamp THEN stamp ELSE <<>>)

\* The outcome of simulation_agg(panda, 'iteration', add_timestamp, is_eval):
\*   status   "ok" or the exception raised
\*   columns  the columns of the result, in order (when ok)
\*   rows     its rows, in order (when ok)
\*   panda    the caller's table after the call
simulation_agg(p, add_timestamp, is_eval) ==
    LET after == FillNewReward(p, is_eval)
        grouped == GroupedFrame(p, after)
        keys == GroupKeys(p.rows)
        episodes == [i \in 1..Len(keys) |-> keys[i][2]]
    IN IF ~is_eval /\ ~grouped.has_new_reward
       THEN [status |-> "KeyError", columns |-> <<>>, rows |-> <<>>, panda |-> after]
       ELSE [status |-> "ok",
             columns |-> AggColumns(add_timestamp, is_eval),
             rows |-> [i \in 1..Len(keys) |->
                          AggRow(keys[i], GroupOf(p.rows, keys[i]),
                                 GroupOf(grouped.rows, keys[i]), add_timestamp, is_eval,
                                 np_min(episodes), np_max(episodes))],
             panda |-> after]

\* The rows a table may hold: three (iteration, episode) pairs, a progress of
\* 0, 50 or 80, a timestamp of 100.0 or 103.5; the other columns follow
AggKeys == { <<1, 0>>, <<1, 1>>, <<2, 1>> }
Progresses == {0, 50, 80}
Timestamps == {1000, 1035}

FrameRow(k, pr, ts, has_new) ==
    [iteration |-> k[1], episode |-> k[2],
     steps |-> IF ts = 1000 THEN 1 ELSE 8,
     closest_waypoint |-> (pr \div 10) + k[2],
     progress |-> pr,
     throttle |-> IF pr = 0 THEN 5 ELSE 10,
     timestamp |-> ts,
     reward |-> (pr \div 10) + 1,
     new_reward |-> IF has_new THEN (pr \div 5) + 3 ELSE 0]

Frames ==
    { [has_new_reward |-> h, rows |-> [i \in 1..Len(rs) |-> FrameRow(rs[i][1], rs[i][2], rs[i][3], h)]] :
        h \in BOOLEAN,
        rs \in UNION {[1..n -> AggKeys \X Progresses \X Timestamps] : n \in 1..MaxRows} }

AggInit ==
    /\ panda \in Frames
    /\ calls = <<>>
    /\ FileIdle
    /\ LoadIdle
    /\ ConvIdle
    /\ ParamIdle
    /\ RewardIdle
    /\ TrackIdle

\* A caller's call of simulation_agg on the table; a later call is given the
\* arguments of the first
SimulationAgg ==
    /\ Len(calls) < MaxCalls
    /\ \E add_timestamp \in BOOLEAN, is_eval \in BOOLEAN :
         LET args == [add_timestamp |-> add_timestamp, is_eval |-> is_eval]
             r == simulation_agg(panda, add_timestamp, is_eval)
         IN /\ calls # <<>> => args = calls[1].args
            /\ calls' = Append(calls, [args |-> args, before |-> panda,
                                       status |-> r.status, columns |-> r.columns,
                                       rows |-> r.rows])
            /\ panda' = r.panda
    /\ UNCHANGED <<fileVars, loadVars, convVars, paramVars, rewardVars, trackVars>>

AggNext == SimulationAgg

SpecAgg == AggInit /\ [][AggNext]_vars

----------------------------------------------------------------------------
(* NewRewardUtils.df_to_params: the two waypoints around the car.  A point *)
(* is <<x, y>>.  GeometryUtils (deepracer/tracks/track_utils.py) is        *)
(* modelled from the specification: the point of a line closest to a point *)
(* is the perpendicular projection, held as a fraction, and a point is on  *)
(* a line's segment when it is on the line between the two ends, ends      *)
(* included.                                                               *)

Dot(u, v) == u[1] * v[1] + u[2] * v[2]
Minus(a, b) == <<a[1] - b[1], a[2] - b[2]>>
Least(a, b) == IF a < b THEN a ELSE b
Most(a, b) == IF a < b THEN b ELSE a

\* gu.get_a_point_on_a_line_closest_to_point(l1, l2, p): <<xn / den, yn / den>>
get_a_point_on_a_line_closest_to_point(l1, l2, p) ==
    LET d == Minus(l2, l1)
        len2 == Dot(d, d)
        t == Dot(Minus(p, l1), d)
    IN [xn |-> l1[1] * len2 + t * d[1], yn |-> l1[2] * len2 + t * d[2], den |-> len2]

\* gu.is_point_roughly_on_the_line(l1, l2, x, y) for the point c, where the
\* two ends differ
is_point_roughly_on_the_line(l1, l2, c) ==
    /\ (c.xn - l1[1] * c.den) * (l2[2] - l1[2]) = (c.yn - l1[2] * c.den) * (l2[1] - l1[1])
    /\ Least(l1[1], l2[1]) * c.den <= c.xn /\ c.xn <= Most(l1[1], l2[1]) * c.den
    /\ Least(l1[2], l2[2]) * c.den <= c.yn /\ c.yn <= Most(l1[2], l2[2]) * c.den

\* waypoints[i] as numpy indexes it: from 0, and from the end where i < 0
At(wps, i) == IF i < 0 THEN wps[Len(wps) + i + 1] ELSE wps[i + 1]

\* lines 534-536
BeforeOf(wps, w) == IF At(wps, w) = At(wps, w - 1) THEN w - 2 ELSE w - 1

\* lines 537-540
AfterOf(wps, w) ==
    LET after == (w + 1) % Len(wps)
    IN IF At(wps, w) = At(wps, after) THEN (after + 1) % Len(wps) ELSE after

\* the segment ahead wherever the point is over the segment behind
ChooseSegmentAhead(on_line, before, waypoint, after) ==
    IF on_line THEN <<waypoint, after>> ELSE <<before, waypoint>>

\* lines 550-557
ChooseSegment(on_line, before, waypoint, after) ==
    IF on_line THEN <<before, waypoint>> ELSE <<waypoint, after>>

\* The outcome of df_to_params(df_row, waypoints), as far as the waypoints go:
\*   before, after       the indices lines 534-540 compute
\*   closest_waypoints   params['closest_waypoints']
\*   closest_point       the point distance_from_center is measured to
\* Where the two ends of the segment behind are one point the specification
\* does not say whether the point is on the line; degenerate says which.
df_to_params(row, wps, degenerate) ==
    LET waypoint == row.closest_waypoint
        before == BeforeOf(wps, waypoint)
        after == AfterOf(wps, waypoint)
        here == <<row.x, row.y>>
        behind == get_a_point_on_a_line_closest_to_point(At(wps, before), At(wps, waypoint), here)
        on_line == IF At(wps, before) = At(wps, waypoint) THEN degenerate
                   ELSE is_point_roughly_on_the_line(At(wps, before), At(wps, waypoint), behind)
    IN [status |-> "ok",
        before |-> before,
        after |-> after,
        closest_waypoints |-> ChooseSegment(on_line, before, waypoint, after),
        closest_point |->
            IF on_line THEN behind
            ELSE get_a_point_on_a_line_closest_to_point(At(wps, waypoint), At(wps, after), here)]

Points == (0..MaxX) \X (0..MaxY)

\* the track's centre line: three waypoints
Tracks == [1..3 -> Points]

ParamInit ==
    /\ waypoints \in Tracks
    /\ df_row \in [x : 0..MaxX, y : 0..MaxY, closest_waypoint : 0..(Len(waypoints) - 1)]
    /\ params = NoParams
    /\ FileIdle
    /\ LoadIdle
    /\ ConvIdle
    /\ AggIdle
    /\ RewardIdle
    /\ TrackIdle

\* A call of df_to_params(df_row, waypoints)
DfToParams ==
    /\ params.status = "none"
    /\ \E degenerate \in BOOLEAN : params' = df_to_params(df_row, waypoints, degenerate)
    /\ UNCHANGED <<waypoints, df_row, fileVars, loadVars, convVars, aggVars, rewardVars, trackVars>>

ParamNext == DfToParams

SpecParams == ParamInit /\ [][ParamNext]_vars

----------------------------------------------------------------------------
(* NewRewardUtils.new_reward.  The module that reward_module names is not  *)
(* part of the repository: it is whether its import and the construction   *)
(* of Reward succeed, and what reward_function does at its first, second,  *)
(* ... invocation: return a score or raise.  A table is its rows in order  *)
(* and whether it has the column new_reward.                               *)

Returns ==
    {[raises |-> TRUE, score |-> 0], [raises |-> FALSE, score |-> 10],
     [raises |-> FALSE, score |-> 20]}

\* lines 601-603: the invocation that raises first, or one past the last row
RECURSIVE FirstRaise(_, _)
FirstRaise(returns, i) ==
    IF i > Len(returns) THEN i
    ELSE IF returns[i].raises THEN i
    ELSE FirstRaise(returns, i + 1)

\* the column written row by row inside the loop
AssignEachRow(p, new_rewards, raised) ==
    [has_new_reward |-> TRUE,
     rows |-> [i \in 1..Len(p.rows) |->
                  IF i <= Len(new_rewards)
                  THEN [p.rows[i] EXCEPT !.new_reward = new_rewards[i]]
                  ELSE p.rows[i]]]

\* line 605, which an exception in the loop does not reach
AssignNewReward(p, new_rewards, raised) ==
    IF raised THEN p
    ELSE [has_new_reward |-> TRUE,
          rows |-> [i \in 1..Len(p.rows) |->
                       [p.rows[i] EXCEPT !.new_reward = new_rewards[i]]]]

\* The outcome of new_reward(panda, center_line, reward_module):
\*   status   "ok" or the exception raised
\*   invoked  the arguments of the invocations of reward_function, in order
\*   panda    the caller's table after the call
new_reward(p, center_line, module) ==
    IF ~module.importable
    THEN [status |-> "ImportError", invoked |-> <<>>, panda |-> p]
    ELSE LET stop == FirstRaise(module.returns, 1)
             raised == stop <= Len(p.rows)
             last == IF raised THEN stop ELSE Len(p.rows)
             new_rewards == [i \in 1..(stop - 1) |-> module.returns[i].score]
         IN [status |-> IF raised THEN "Exception" ELSE "ok",
             invoked |-> [i \in 1..last |->
                            LET made_params == df_to_params(p.rows[i], center_line, FALSE)
                            IN [x |-> p.rows[i].x, y |-> p.rows[i].y,
                                closest_waypoints |-> made_params.closest_waypoints]],
             panda |-> AssignNewReward(p, new_rewards, raised)]

\* the centre line given: three waypoints on a line, no two the same
CenterLine == << <<0, 0>>, <<2, 0>>, <<3, 0>> >>

ScoredRows == [x : {1, 3}, y : {0}, closest_waypoint : 0..(Len(CenterLine) - 1)]

\* the tables given: a column new_reward, where there is one, holds 7
ScoredFrames ==
    { [has_new_reward |-> h,
       rows |-> [i \in 1..Len(rs) |->
                    [x |-> rs[i].x, y |-> rs[i].y,
                     closest_waypoint |-> rs[i].closest_waypoint,
                     new_reward |-> IF h THEN 7 ELSE 0]]] :
        h \in BOOLEAN, rs \in UNION {[1..n -> ScoredRows] : n \in 0..MaxScored} }

Modules(n) ==
    {NoModule} \cup {[importable |-> TRUE, returns |-> r] : r \in [1..n -> Returns]}

RewardInit ==
    /\ reward_panda \in ScoredFrames
    /\ reward_module \in Modules(Len(reward_panda.rows))
    /\ scored = NotScored
    /\ FileIdle
    /\ LoadIdle
    /\ ConvIdle
    /\ AggIdle
    /\ ParamIdle
    /\ TrackIdle

\* A caller's call of new_reward(reward_panda, CenterLine, reward_module)
NewReward ==
    /\ scored.status = "none"
    /\ LET r == new_reward(reward_panda, CenterLine, reward_module)
       IN /\ scored' = [status |-> r.status, invoked |-> r.invoked, before |-> reward_panda]
          /\ reward_panda' = r.panda
    /\ UNCHANGED <<reward_module, fileVars, loadVars, convVars, aggVars, paramVars, trackVars>>

RewardNext == NewReward

SpecReward == RewardInit /\ [][RewardNext]_vars

----------------------------------------------------------------------------
(* PlottingUtils.plot_track: the grid of rewards, track_size[0] rows by    *)
(* track_size[1] columns.  Positions are numbers in units of 10^-4, as in  *)
(* the table; the drawing of the borders (lines 479-490) does not change   *)
(* the grid.  A cell is <<row, column>>, both counted from 0.              *)

OutOfBounds == -1

\* line 477: numpy's index along one axis of the size given: the place it
\* names, counted from the far end where it is negative
AxisIndex(i, size) ==
    IF 0 <= i /\ i < size THEN i
    ELSE IF -size <= i /\ i < 0 THEN size + i
    ELSE OutOfBounds

\* lines 471-472, 474-475
ClipHigh(v, size) == IF v >= size THEN size - 1 ELSE v

\* lines 466-467, 471-475 for one row: the pair y, x given to track[y, x]
IndexOf(row, track_size, x_shift, y_shift) ==
    LET x == IntOfQuotient(row.x, Unit) + x_shift
        y == IntOfQuotient(row.y, Unit) + y_shift
    IN <<ClipHigh(y, track_size[1]), ClipHigh(x, track_size[2])>>

\* The outcome of plot_track(df, ..., track_size, x_shift, y_shift):
\*   status   "ok" or the exception raised
\*   track    the grid returned (when ok): the reward written last to each
\*            cell, 0 where none was
\*   written  the cells written, in order
plot_track(rows, track_size, x_shift, y_shift) ==
    LET cells == [i \in 1..Len(rows) |->
                    LET yx == IndexOf(rows[i], track_size, x_shift, y_shift)
                    IN <<AxisIndex(yx[1], track_size[1]), AxisIndex(yx[2], track_size[2])>>]
        bad == {i \in 1..Len(rows) : OutOfBounds \in {cells[i][1], cells[i][2]}}
        stop == IF bad = {} THEN Len(rows) + 1
                ELSE CHOOSE i \in bad : \A j \in bad : i <= j
    IN IF bad # {}
       THEN [status |-> "IndexError", track |-> <<>>,
             written |-> [i \in 1..(stop - 1) |-> cells[i]]]
       ELSE [status |-> "ok",
             track |-> [c \in (0..(track_size[1] - 1)) \X (0..(track_size[2] - 1)) |->
                          LET ws == {i \in 1..Len(rows) : cells[i] = c}
                          IN IF ws = {} THEN 0
                             ELSE rows[CHOOSE i \in ws : \A j \in ws : j <= i].reward],
             written |-> cells]

\* the grids' shapes, the positions (-3.5, -1.0, -0.5, 1.5, 4.0) and the shifts
TrackSizes == { <<2, 3>>, <<3, 2>> }
Positions == {-35000, -10000, -5000, 15000, 40000}
Shifts == {-1, 0, 1}

PlottedRows == [x : Positions, y : Positions, reward : {1, 2}]

PlotInit ==
    /\ df \in UNION {[1..n -> PlottedRows] : n \in 0..MaxPlotted}
    /\ plot_args \in [track_size : TrackSizes, x_shift : Shifts, y_shift : Shifts]
    /\ track = NoTrack
    /\ FileIdle
    /\ LoadIdle
    /\ ConvIdle
    /\ AggIdle
    /\ ParamIdle
    /\ RewardIdle

\* A caller's call of plot_track on the table
PlotTrack ==
    /\ track.status = "none"
    /\ track' = plot_track(df, plot_args.track_size, plot_args.x_shift, plot_args.y_shift)
    /\ UNCHANGED <<df, plot_args, fileVars, loadVars, convVars, aggVars, paramVars, rewardVars>>

PlotNext == PlotTrack

SpecPlot == PlotInit /\ [][PlotNext]_vars

----------------------------------------------------------------------------
(* The loader's claims *)

\* the trace records of one file, read on its own
RecordsOf(text) == load_single_file(text, None).ret

\* the number of continuation files fname.1 .. fname.k present without a gap
Continuations ==
    CHOOSE k \in 0..MaxRoll :
        /\ \A j \in 1..k : fs[j].exists
        /\ k = MaxRoll \/ ~fs[k + 1].exists

\* C1: load_data returns the records of fname.1, ..., fname.k and then of
\* fname, concatenated in that order, none missing.
C1_RolloverOrder ==
    loaded.status = "ok" =>
        loaded.ret = List(Concat([j \in 1..Continuations |-> RecordsOf(fs[j].text)])
                          \o RecordsOf(fs[0].text))

\* the records the claim C10 describes: of each line that holds the marker,
\* the text after the marker (and its colon) up to the first tab
RECURSIVE DropThrough(_, _)
DropThrough(s, c) ==
    IF s = <<>> THEN <<>> ELSE IF Head(s) = c THEN Tail(s) ELSE DropThrough(Tail(s), c)

RECURSIVE TakeUntil(_, _)
TakeUntil(s, c) ==
    IF s = <<>> \/ Head(s) = c THEN <<>> ELSE <<Head(s)>> \o TakeUntil(Tail(s), c)

ClaimedRecord(line) ==
    LET rest == DropThrough(line, Marker)
    IN TakeUntil(IF rest # <<>> /\ Head(rest) = ":" THEN Tail(rest) ELSE rest, TAB)

ClaimedRecords(text) ==
    LET marked == SelectSeq(ReadLines(text), LAMBDA l : Contains(l, Marker))
    IN [i \in 1..Len(marked) |-> ClaimedRecord(marked[i])]

\* C7: when the caller passes a list (empty or not), load_single_file returns
\* that same list object, with the file's records appended to what it held.
C7_CallerListAppended ==
    (out.status = "ok" /\ ~arg.is_none) =>
        /\ out.same
        /\ out.caller = arg.list \o RecordsOf(content)
        /\ out.ret = out.caller

\* C8: a missing base file is an I/O error and no list is returned; a missing
\* continuation file ends the scan, no later continuation file is read, and
\* the base file is read after the continuation files.
C8_MissingFiles ==
    loaded.status # "none" =>
        LET scanned == [j \in 1..Continuations |-> j]
        IN /\ ~fs[0].exists =>
                /\ loaded.status = "IOError"
                /\ loaded.ret = None
                /\ loaded.opened = scanned
           /\ fs[0].exists =>
                /\ loaded.status = "ok"
                /\ ~loaded.ret.is_none
                /\ loaded.opened = Append(scanned, 0)

\* C8's case: fname.1 is missing, fname.2 is there and is not read, and the
\* base file is read
C8_Witness ==
    /\ loaded.status = "ok"
    /\ ~fs[1].exists
    /\ fs[2].exists
    /\ loaded.opened = <<0>>

\* C10: every line that holds the marker gives exactly one record, in line
\* order, the text after the marker up to the first tab; no such line makes
\* the call fail.
C10_MarkerLines ==
    (out.status # "none" /\ arg.is_none) =>
        /\ out.status = "ok"
        /\ out.ret = ClaimedRecords(content)

----------------------------------------------------------------------------
(* The converter's claims *)

\* the table row the claim C2 describes for what the simulator logged
RowClaimed(r) ==
    [episode |-> r.episode, steps |-> r.steps, x |-> 100 * r.x, y |-> 100 * r.y,
     yaw |-> r.yaw, steer |-> r.steer, throttle |-> r.throttle,
     action |-> r.action * Unit, reward |-> r.reward,
     done |-> IF r.done THEN 1 ELSE 0,
     on_track |-> IF r.on_track THEN <<"T", "r", "u", "e">> ELSE <<"F", "a", "l", "s", "e">>,
     progress |-> r.progress, closest_waypoint |-> r.closest_waypoint,
     track_len |-> r.track_len, timestamp |-> r.timestamp]

WithoutIteration(row) == [c \in DOMAIN row \ {"iteration"} |-> row[c]]

\* C2: two placeholder records and N well-formed records give a table of
\* exactly N rows, in input order, with the 16 documented columns; every
\* value is the logged one, x and y times 100.
C2_RoundTrip ==
    (table.status # "none" /\ made.bad.k = 0) =>
        /\ table.status = "ok"
        /\ table.header =
               <<"iteration", "episode", "steps", "x", "y", "yaw", "steer", "throttle",
                 "action", "reward", "done", "on_track", "progress", "closest_waypoint",
                 "track_len", "timestamp">>
        /\ Len(table.rows) = Len(made.rows)
        /\ \A i \in 1..Len(made.rows) :
              /\ DOMAIN table.rows[i] = {table.header[c] : c \in 1..Len(table.header)}
              /\ WithoutIteration(table.rows[i]) = RowClaimed(made.rows[i])

\* C2's case: two records after two placeholders that are no records
C2_Witness ==
    /\ table.status = "ok"
    /\ made.bad.k = 0
    /\ made.prefix = << <<"x">>, <<>> >>
    /\ Len(table.rows) = 2

\* C3 as stated: iteration = floor(episode / episodes_per_iteration) + 1 for
\* every episode the parser accepts.
C3_FloorIteration ==
    table.status = "ok" =>
        \A i \in 1..Len(table.rows) :
            table.rows[i].iteration = (table.rows[i].episode \div epi) + 1

\* C3 amended: iteration = floor(episode / episodes_per_iteration) + 1 for
\* every episode >= 0; for an episode < 0 the quotient is cut toward zero,
\* iteration = 1 - floor(-episode / episodes_per_iteration).
C3_TruncatedIteration ==
    table.status = "ok" =>
        \A i \in 1..Len(table.rows) :
            LET e == table.rows[i].episode
            IN /\ e >= 0 => table.rows[i].iteration = (e \div epi) + 1
               /\ e < 0 => table.rows[i].iteration = 1 - ((-e) \div epi)

\* C3's case: with 20 episodes per iteration, episode 19 is in iteration 1
\* and episode 20 in iteration 2
C3_Witness ==
    /\ table.status = "ok"
    /\ epi = 20
    /\ Len(table.rows) = 2
    /\ table.rows[1].episode = 19 /\ table.rows[1].iteration = 1
    /\ table.rows[2].episode = 20 /\ table.rows[2].iteration = 2

TextTrue == <<"T", "r", "u", "e">>
TextFalse == <<"F", "a", "l", "s", "e">>

\* whether text t fails the cast the claim C9 names for field j: integer,
\* floating-point, or boolean from "True" / "False"
FailsNumberCast(j, t) ==
    IF j \in {1, 2, 13} THEN t \notin IntTexts ELSE t \notin IntTexts \cup PointTexts

FailsClaimedCast(j, t) ==
    IF j \in {10, 11} THEN t \notin {TextTrue, TextFalse} ELSE FailsNumberCast(j, t)

NoTableAtAll == table.status \notin {"none", "ok"} /\ table.header = <<>> /\ table.rows = <<>>

\* C9 as stated: a field that fails its cast, boolean fields included, makes
\* the call raise and give no table.
C9_AnyFieldFails ==
    (table.status # "none" /\ made.bad.k > 0
        /\ FailsClaimedCast(made.bad.j, made.bad.text)) => NoTableAtAll

\* C9 amended: a field among the 13 number fields that fails its cast makes
\* the call raise and give no table, whatever well-formed records come
\* before or after; the fields done and on_track are not cast and never
\* raise: done is 0 when the text holds "False" and 1 otherwise, on_track is
\* the text as it is.
C9_NumberFieldFails ==
    (table.status # "none" /\ made.bad.k > 0) =>
        LET j == made.bad.j
            t == made.bad.text
        IN /\ (j \notin {10, 11} /\ FailsNumberCast(j, t)) => NoTableAtAll
           /\ j \in {10, 11} =>
                /\ table.status = "ok"
                /\ Len(table.rows) = Len(made.rows)
           /\ j = 10 =>
                table.rows[made.bad.k].done =
                    IF t \in {TextFalse, <<"x">> \o TextFalse} THEN 0 ELSE 1
           /\ j = 11 => table.rows[made.bad.k].on_track = t

\* C9's case: the first of two records has a number field that fails its
\* cast, the second is well formed, and the call raised
C9_Witness ==
    /\ table.status = "ValueError"
    /\ made.bad.k = 1
    /\ made.bad.j = 3
    /\ made.bad.text = <<"x">>
    /\ Len(made.rows) = 2

----------------------------------------------------------------------------
(* The aggregator's claims *)

SetMax(S) == CHOOSE m \in S : \A v \in S : v <= m
SetMin(S) == CHOOSE m \in S : \A v \in S : m <= v

PairsIn(rows) == {<<rows[i].iteration, rows[i].episode>> : i \in 1..Len(rows)}
ValuesIn(rows, pair, c) ==
    {rows[i][c] : i \in {n \in 1..Len(rows) : <<rows[n].iteration, rows[n].episode>> = pair}}

\* C4: the result has exactly one row for each (iteration, episode) pair of
\* the input table; its progress is the greatest progress of the pair's rows
\* and its time the greatest minus the least timestamp of the pair's rows.
C4_OneRowPerEpisode ==
    \A n \in 1..Len(calls) :
        LET c == calls[n]
        IN /\ c.status = "ok"
           /\ Len(c.rows) = Cardinality(PairsIn(c.before.rows))
           /\ PairsIn(c.rows) = PairsIn(c.before.rows)
           /\ \A i \in 1..Len(c.rows) :
                LET pair == <<c.rows[i].iteration, c.rows[i].episode>>
                IN /\ c.rows[i].progress = SetMax(ValuesIn(c.before.rows, pair, "progress"))
                   /\ c.rows[i].time = SetMax(ValuesIn(c.before.rows, pair, "timestamp"))
                                        - SetMin(ValuesIn(c.before.rows, pair, "timestamp"))

\* C4's case: two rows of iteration 1, episode 0 with progress 50 and 80 at
\* 100.0 s and 103.5 s give one row with progress 80 and time 3.5 s
C4_Witness ==
    /\ Len(calls) >= 1
    /\ Len(calls[1].before.rows) = 2
    /\ \A i \in 1..2 : calls[1].before.rows[i].iteration = 1
                        /\ calls[1].before.rows[i].episode = 0
    /\ calls[1].before.rows[1].progress = 50 /\ calls[1].before.rows[1].timestamp = 1000
    /\ calls[1].before.rows[2].progress = 80 /\ calls[1].before.rows[2].timestamp = 1035
    /\ Len(calls[1].rows) = 1
    /\ calls[1].rows[1].progress = 80
    /\ calls[1].rows[1].time = 35

\* C5: a second call with the same arguments on the same table, which the
\* caller has not touched in between, returns the table the first returned.
C5_Idempotent ==
    \A n \in 1..Len(calls) - 1 :
        calls[n].args = calls[n + 1].args =>
            /\ calls[n + 1].status = calls[n].status
            /\ calls[n + 1].columns = calls[n].columns
            /\ calls[n + 1].rows = calls[n].rows

\* C5's case: the first call, not in evaluation mode, added the column
\* new_reward to the table, and the second call was made on the table so changed
C5_Witness ==
    /\ Len(calls) = 2
    /\ ~calls[1].args.is_eval
    /\ ~calls[1].before.has_new_reward
    /\ calls[2].before.has_new_reward
    /\ calls[2].status = "ok"
    /\ Len(calls[2].rows) = 2

\* the table as a call left it
TableAfter(n) == IF n = Len(calls) THEN panda ELSE calls[n + 1].before

\* the sum of column c over those of the first n rows that are of the pair
RECURSIVE ColumnTotal(_, _, _, _)
ColumnTotal(rows, pair, c, n) ==
    IF n = 0 THEN 0
    ELSE ColumnTotal(rows, pair, c, n - 1)
         + (IF <<rows[n].iteration, rows[n].episode>> = pair THEN rows[n][c] ELSE 0)

TrainingOnly == {"reward", "new_reward", "reward_if_complete", "quintile"}

\* C11: a call not in evaluation mode on a table without the column new_reward
\* does not fail, gives every group a new_reward equal to the sum of the group's
\* reward, and leaves the table with a column new_reward equal to reward row by
\* row; a call in evaluation mode leaves the table as it was and its result has
\* none of the columns reward, new_reward, reward_if_complete, quintile.
C11_NewRewardFallback ==
    \A n \in 1..Len(calls) :
        LET c == calls[n]
            after == TableAfter(n)
        IN /\ (~c.args.is_eval /\ ~c.before.has_new_reward) =>
                /\ c.status = "ok"
                /\ "new_reward" \in {c.columns[j] : j \in 1..Len(c.columns)}
                /\ \A i \in 1..Len(c.rows) :
                     c.rows[i].new_reward =
                         ColumnTotal(c.before.rows,
                                     <<c.rows[i].iteration, c.rows[i].episode>>,
                                     "reward", Len(c.before.rows))
                /\ after.has_new_reward
                /\ Len(after.rows) = Len(c.before.rows)
                /\ \A i \in 1..Len(after.rows) :
                     /\ after.rows[i].new_reward = c.before.rows[i].reward
                     /\ after.rows[i] = [c.before.rows[i] EXCEPT !.new_reward = after.rows[i].new_reward]
           /\ c.args.is_eval =>
                /\ c.status = "ok"
                /\ after = c.before
                /\ {c.columns[j] : j \in 1..Len(c.columns)} \cap TrainingOnly = {}
                /\ \A i \in 1..Len(c.rows) : DOMAIN c.rows[i] \cap TrainingOnly = {}

\* C11's case: a table without new_reward whose two rows of one episode have
\* reward 6 and 9 is aggregated in training mode, giving new_reward 15, and the
\* same table is aggregated in evaluation mode
C11_Witness ==
    /\ Len(calls) >= 1
    /\ ~calls[1].before.has_new_reward
    /\ Len(calls[1].before.rows) = 2
    /\ calls[1].before.rows[1].reward = 6
    /\ calls[1].before.rows[2].reward = 9
    /\ Len(calls[1].rows) = 1
    /\ ~calls[1].args.is_eval
    /\ calls[1].rows[1].new_reward = 15
    /\ TableAfter(1).has_new_reward
    /\ TableAfter(1).rows[2].new_reward = 9

RowsOf(rows, pair) == {n \in 1..Len(rows) : <<rows[n].iteration, rows[n].episode>> = pair}

NotANumber == {"nan", "inf", "-inf"}

\* C13: a group whose greatest progress is 0, or that has a single row, is
\* neither rejected nor dropped: the call does not fail and the result has one
\* row for the group, with steps, start_at, progress, time and throttle computed
\* as for any group; only time_if_complete and reward_if_complete are
\* degenerate: not a number where progress is 0, and time_if_complete 0 for a
\* single row with progress.
C13_DegenerateGroupsKept ==
    \A n \in 1..Len(calls) :
        LET c == calls[n]
            rows == c.before.rows
        IN \A pair \in PairsIn(rows) :
             LET progress == SetMax(ValuesIn(rows, pair, "progress"))
                 members == RowsOf(rows, pair)
                 made_rows == RowsOf(c.rows, pair)
             IN (progress = 0 \/ Cardinality(members) = 1) =>
                  /\ c.status = "ok"
                  /\ Cardinality(made_rows) = 1
                  /\ \A i \in made_rows :
                       /\ c.rows[i].steps = SetMax(ValuesIn(rows, pair, "steps"))
                       /\ c.rows[i].start_at = rows[SetMin(members)].closest_waypoint
                       /\ c.rows[i].progress = progress
                       /\ c.rows[i].time = SetMax(ValuesIn(rows, pair, "timestamp"))
                                            - SetMin(ValuesIn(rows, pair, "timestamp"))
                       /\ c.rows[i].throttle.kind = "number"
                       /\ c.rows[i].throttle.num * Cardinality(members)
                            = ColumnTotal(rows, pair, "throttle", Len(rows)) * c.rows[i].throttle.den
                       /\ progress = 0 => c.rows[i].time_if_complete.kind \in NotANumber
                       /\ (progress = 0 /\ ~c.args.is_eval) =>
                            c.rows[i].reward_if_complete.kind \in NotANumber
                       /\ progress # 0 =>
                            /\ c.rows[i].time_if_complete.kind = "number"
                            /\ c.rows[i].time_if_complete.num = 0

\* C13's case: the two rows of one episode, 3.5 s apart, both have progress 0:
\* the result has the episode's row, with time 3.5 s and time_if_complete and
\* reward_if_complete infinite
C13_Witness ==
    /\ Len(calls) >= 1
    /\ Len(calls[1].before.rows) = 2
    /\ \A i \in 1..2 : calls[1].before.rows[i].progress = 0
    /\ ~calls[1].args.is_eval
    /\ calls[1].status = "ok"
    /\ Len(calls[1].rows) = 1
    /\ calls[1].rows[1].time = 35
    /\ calls[1].rows[1].time_if_complete.kind = "inf"
    /\ calls[1].rows[1].reward_if_complete.kind = "inf"

----------------------------------------------------------------------------
(* The reward recomputation's claims *)

RaisingRows == {i \in 1..Len(reward_module.returns) : reward_module.returns[i].raises}

RowInvoked(i) ==
    /\ scored.invoked[i].x = scored.before.rows[i].x
    /\ scored.invoked[i].y = scored.before.rows[i].y

\* C12: reward_function is invoked once per row, in row order; on success the
\* table has a column new_reward whose i-th value is the score returned for the
\* i-th row; if reward_function raises on a row the exception propagates and
\* the table is as it was before the call.
C12_AllOrNothing ==
    (scored.status # "none" /\ reward_module.importable) =>
        IF RaisingRows = {}
        THEN /\ scored.status = "ok"
             /\ Len(scored.invoked) = Len(scored.before.rows)
             /\ \A i \in 1..Len(scored.invoked) : RowInvoked(i)
             /\ reward_panda.has_new_reward
             /\ Len(reward_panda.rows) = Len(scored.before.rows)
             /\ \A i \in 1..Len(reward_panda.rows) :
                  /\ reward_panda.rows[i].new_reward = reward_module.returns[i].score
                  /\ reward_panda.rows[i] =
                         [scored.before.rows[i] EXCEPT
                             !.new_reward = reward_module.returns[i].score]
        ELSE /\ scored.status = "Exception"
             /\ reward_panda = scored.before
             /\ \A i \in 1..Len(scored.invoked) : RowInvoked(i)
             /\ \A i \in 1..Len(scored.invoked) - 1 : i \notin RaisingRows
             /\ Len(scored.invoked) \in RaisingRows

\* C12's case: a table of two rows with a column new_reward; reward_function
\* returns 10 for the first row and raises on the second; the column still
\* holds 7 in both rows
C12_Witness ==
    /\ scored.status = "Exception"
    /\ Len(scored.before.rows) = 2
    /\ scored.before.has_new_reward
    /\ reward_module.returns[1] = [raises |-> FALSE, score |-> 10]
    /\ reward_module.returns[2].raises
    /\ Len(scored.invoked) = 2
    /\ reward_panda.rows[1].new_reward = 7
    /\ reward_panda.rows[2].new_reward = 7

----------------------------------------------------------------------------
(* The waypoint claims *)

Cross(u, v) == u[1] * v[2] - u[2] * v[1]

\* p is on the line through a and b, strictly between them
StrictlyBetween(a, b, p) ==
    /\ Cross(Minus(b, a), Minus(p, a)) = 0
    /\ 0 < Dot(Minus(p, a), Minus(b, a))
    /\ Dot(Minus(p, a), Minus(b, a)) < Dot(Minus(b, a), Minus(b, a))

\* the foot of the perpendicular from p to the line through a and b is on
\* the segment from a to b
FootOnSegment(a, b, p) ==
    /\ 0 <= Dot(Minus(p, a), Minus(b, a))
    /\ Dot(Minus(p, a), Minus(b, a)) <= Dot(Minus(b, a), Minus(b, a))

\* C6: with three distinct colinear waypoints A, B, C in a row, B the recorded
\* closest waypoint and the car strictly between A and B, closest_waypoints
\* is [A's index, B's index]; in general it is [before, waypoint] whenever the
\* car's projection on the line through them is on the segment from before to
\* waypoint, and [waypoint, after] otherwise.
C6_Bracketing ==
    params.status = "ok" =>
        LET w == df_row.closest_waypoint
            here == <<df_row.x, df_row.y>>
        IN /\ ( /\ w = 1
                /\ Cardinality({waypoints[1], waypoints[2], waypoints[3]}) = 3
                /\ Cross(Minus(waypoints[2], waypoints[1]),
                         Minus(waypoints[3], waypoints[1])) = 0
                /\ StrictlyBetween(waypoints[1], waypoints[2], here) )
              => params.closest_waypoints = <<0, 1>>
           /\ At(waypoints, params.before) # At(waypoints, w) =>
                params.closest_waypoints =
                    IF FootOnSegment(At(waypoints, params.before), At(waypoints, w), here)
                    THEN <<params.before, w>>
                    ELSE <<w, params.after>>

\* C6's case: A = (0, 0), B = (2, 0), C = (3, 0), the car at (1, 0)
C6_Witness ==
    /\ params.status = "ok"
    /\ waypoints = << <<0, 0>>, <<2, 0>>, <<3, 0>> >>
    /\ df_row = [x |-> 1, y |-> 0, closest_waypoint |-> 1]
    /\ params.closest_waypoints = <<0, 1>>

\* C14: for every list of at least three waypoints and every recorded closest
\* waypoint, the first and the last included, both entries of closest_waypoints
\* are indices in 0..n-1, they are different indices, and they name different
\* points.
C14_ValidSegment ==
    params.status = "ok" =>
        LET cw == params.closest_waypoints
            valid == 0..(Len(waypoints) - 1)
        IN /\ cw[1] \in valid
           /\ cw[2] \in valid
           /\ cw[1] # cw[2]
           /\ At(waypoints, cw[1]) # At(waypoints, cw[2])
----------------------------------------------------------------------------
(* The grid's claims *)

WholePart(v) == IF v >= 0 THEN v \div Unit ELSE -((-v) \div Unit)

Clamped(v, size) == IF v < 0 THEN 0 ELSE IF v > size - 1 THEN size - 1 ELSE v

\* C15: for every row and every x_shift and y_shift the call does not fail and
\* the cell written is inside the grid: its row is int(y) + y_shift and its
\* column int(x) + x_shift, each brought to the nearest edge where it is off the
\* grid, above or below.
C15_WrittenInsideGrid ==
    track.status # "none" =>
        /\ track.status = "ok"
        /\ Len(track.written) = Len(df)
        /\ \A i \in 1..Len(track.written) :
             track.written[i] =
                 << Clamped(WholePart(df[i].y) + plot_args.y_shift, plot_args.track_size[1]),
                    Clamped(WholePart(df[i].x) + plot_args.x_shift, plot_args.track_size[2]) >>
====
